---- MODULE Spec2Model ----
(***************************************************************************)
(* Draw engine of the Sparklight raffle: the seeded weighted selector      *)
(* (lib/raffle), the draw session kept in the Index page's React state,    *)
(* the presenter (sequential reveal, bulk reveal, replay) and the reveal   *)
(* animations' completion timers.                                          *)
(*                                                                         *)
(* 32-bit words are pairs <<hi, lo>> of 16-bit halves, so that every       *)
(* intermediate value of the Mulberry32 mixing stays inside TLC's integer  *)
(* range while the arithmetic is still exactly the arithmetic mod 2^32     *)
(* that the JavaScript bit operators and Math.imul perform.                *)
(***************************************************************************)
EXTENDS Integers, Sequences, FiniteSets, TLC

----------------------------------------------------------------------------
(* 32-bit arithmetic *)

Half == 65536

RECURSIVE XorBits(_, _, _)
XorBits(x, y, n) ==
  IF n = 0 THEN 0
  ELSE (((x % 2) + (y % 2)) % 2) + 2 * XorBits(x \div 2, y \div 2, n - 1)

RECURSIVE OrBits(_, _, _)
OrBits(x, y, n) ==
  IF n = 0 THEN 0
  ELSE (IF x % 2 = 1 \/ y % 2 = 1 THEN 1 ELSE 0)
         + 2 * OrBits(x \div 2, y \div 2, n - 1)

RECURSIVE Pow2(_)
Pow2(n) == IF n = 0 THEN 1 ELSE 2 * Pow2(n - 1)

\* ToUint32 of a non-negative integer below 2^31
Word(n) == <<n \div Half, n % Half>>

Xor32(a, b) == <<XorBits(a[1], b[1], 16), XorBits(a[2], b[2], 16)>>

\* a | k for a constant k below 2^16
OrSmall(a, k) == <<a[1], OrBits(a[2], k, 16)>>

\* a >>> n for 0 < n < 16
Shr32(a, n) ==
  <<a[1] \div Pow2(n),
    (a[2] \div Pow2(n)) + ((a[1] % Pow2(n)) * Pow2(16 - n))>>

\* (a + b) mod 2^32
Add32(a, b) ==
  LET lo == a[2] + b[2]
      hi == a[1] + b[1] + (lo \div Half)
  IN  <<hi % Half, lo % Half>>

\* Math.imul: the low 32 bits of the product, computed on bytes
Imul32(a, b) ==
  LET a0 == a[2] % 256
      a1 == a[2] \div 256
      a2 == a[1] % 256
      a3 == a[1] \div 256
      b0 == b[2] % 256
      b1 == b[2] \div 256
      b2 == b[1] % 256
      b3 == b[1] \div 256
      p0 == a0 * b0
      p1 == (a0 * b1) + (a1 * b0) + (p0 \div 256)
      p2 == (a0 * b2) + (a1 * b1) + (a2 * b0) + (p1 \div 256)
      p3 == (a0 * b3) + (a1 * b2) + (a2 * b1) + (a3 * b0) + (p2 \div 256)
  IN  <<((p3 % 256) * 256) + (p2 % 256), ((p1 % 256) * 256) + (p0 % 256)>>

\* 0x6D2B79F5
MulberryIncrement == <<27947, 31221>>

\* The first output of mulberry32(seed), as the 32-bit numerator u of
\* the returned fraction u / 4294967296.
mulberry32(seed) ==
  LET t0 == Add32(Word(seed), MulberryIncrement)
      t1 == Imul32(Xor32(t0, Shr32(t0, 15)), OrSmall(t0, 1))
      t2 == Xor32(t1, Add32(t1, Imul32(Xor32(t1, Shr32(t1, 7)), OrSmall(t1, 61))))
  IN  Xor32(t2, Shr32(t2, 14))

----------------------------------------------------------------------------
(* Bounds of the model *)

\* the numberOfWinners entered in the configuration panel
MaxWinners == 2
\* reveal timers of the wheel animation that may be pending at once
MaxTimers == 2
\* draw sessions (draw ids) started in one behaviour
MaxDraws == 1
\* reveals the wheel animation is asked for in one behaviour
MaxWheelSpins == 2
\* times the presenter is opened (to draw or to replay) in one behaviour
MaxPresentations == 3
\* draws loaded from the history panel in one behaviour
MaxLoads == 1
\* participants in a list handed to a library function
MaxPool == 3
\* prizes in a sequential list, and positions asked for beyond it
MaxPrizes == 2
MaxPosition == 4

\* values Math.floor(Math.random() * 2147483647) takes in generateSeed
SeedNumbers == {0, 6}
\* values the same expression takes in weightedRandomSelect's fallback
RandomNumbers == {4, 7}
\* the bonusRoundInterval entered in the configuration panel, when not 0
BonusInterval == 2

Ann == [name |-> "Ann", email |-> "ann@x", entries |-> 1]
Bob == [name |-> "Bob", email |-> "bob@x", entries |-> 2]
Cy == [name |-> "Cy", email |-> "cy@x", entries |-> 1]
Al == [name |-> "Al", email |-> "al@x", entries |-> 3]
\* a second row with Ann's email, kept by an import that does not merge
Ann2 == [name |-> "Ann2", email |-> "ann@x", entries |-> 2]

\* participant lists an import delivers
Pools == {<<Ann, Bob, Cy>>, <<Ann, Ann2>>}

----------------------------------------------------------------------------
(* Values *)

None == <<>>
Some(v) == <<v>>

\* parseInt of a string that is not a number
NaN == -1

RECURSIVE NumberToString(_)
\* Number.prototype.toString of a non-negative integer: its decimal digits
NumberToString(n) == IF n < 10 THEN <<n>> ELSE Append(NumberToString(n \div 10), n % 10)

RECURSIVE ParseDigits(_)
ParseDigits(s) ==
  IF s = <<>> THEN 0
  ELSE 10 * ParseDigits(SubSeq(s, 1, Len(s) - 1)) + s[Len(s)]

\* parseInt(seed, 10) of a string of decimal digits; '' gives NaN
ParseInt(s) == IF s = <<>> THEN NaN ELSE ParseDigits(s)

RECURSIVE SumEntries(_)
SumEntries(ps) ==
  IF ps = <<>> THEN 0 ELSE Head(ps).entries + SumEntries(Tail(ps))

\* the UTF-16 code units of the strings the participants are made of
CodeUnits(str) ==
  CASE str = "Al" -> <<65, 108>>
    [] str = "Ann" -> <<65, 110, 110>>
    [] str = "Ann2" -> <<65, 110, 110, 50>>
    [] str = "Bob" -> <<66, 111, 98>>
    [] str = "Cy" -> <<67, 121>>
    [] str = "al@x" -> <<97, 108, 64, 120>>
    [] str = "ann@x" -> <<97, 110, 110, 64, 120>>
    [] str = "bob@x" -> <<98, 111, 98, 64, 120>>
    [] str = "cy@x" -> <<99, 121, 64, 120>>

\* the code units of a number's decimal digits
DigitUnits(n) == [i \in 1..Len(NumberToString(n)) |-> 48 + NumberToString(n)[i]]

\* the line `${p.name}|${p.email}|${p.entries}` of the checksum input
ChecksumLine(p) ==
  CodeUnits(p.name) \o <<124>> \o CodeUnits(p.email) \o <<124>>
    \o DigitUnits(p.entries)

RECURSIVE StringLess(_, _)
\* a < b for two strings: the order of their code units
StringLess(a, b) ==
  IF b = <<>> THEN FALSE
  ELSE IF a = <<>> THEN TRUE
  ELSE IF a[1] # b[1] THEN a[1] < b[1]
  ELSE StringLess(Tail(a), Tail(b))

RECURSIVE InsertLine(_, _)
InsertLine(l, sorted) ==
  IF sorted = <<>> THEN <<l>>
  ELSE IF StringLess(l, Head(sorted)) THEN <<l>> \o sorted
  ELSE <<Head(sorted)>> \o InsertLine(l, Tail(sorted))

\* the lines left in the order of the input
UnsortedLines(ls) == ls

RECURSIVE SortLines(_)
\* Array.prototype.sort() without a comparator, on strings
SortLines(ls) ==
  IF ls = <<>> THEN <<>> ELSE InsertLine(Head(ls), SortLines(Tail(ls)))

RECURSIVE JoinLines(_)
\* join('\n')
JoinLines(ls) ==
  IF ls = <<>> THEN <<>>
  ELSE IF Len(ls) = 1 THEN ls[1]
  ELSE ls[1] \o <<10>> \o JoinLines(Tail(ls))

\* The digest of the sorted, joined lines; the digest is taken to be
\* injective, so the checksum stands for the text it is computed from.
calculateChecksum(ps) ==
  Some(JoinLines(SortLines([i \in 1..Len(ps) |-> ChecksumLine(ps[i])])))

----------------------------------------------------------------------------
(* Weighted selection *)

\* cumulative >= (u / 2^32) * totalWeight, for a 32-bit numerator u
ReachesTarget(cumulative, u, totalWeight) ==
  LET a == u[2] * totalWeight
      c == (u[1] * totalWeight) + (a \div Half)
      q == c \div Half
  IN  \/ cumulative > q
      \/ cumulative = q /\ c % Half = 0 /\ a % Half = 0

\* the walk never stops before the last eligible participant
WalkToLast(eligible, cumulative, u, totalWeight) == eligible[Len(eligible)]

RECURSIVE Walk(_, _, _, _)
\* the for loop of weightedRandomSelect over the eligible participants
Walk(eligible, cumulative, u, totalWeight) ==
  IF Len(eligible) = 1 THEN Head(eligible)
  ELSE IF ReachesTarget(cumulative + Head(eligible).entries, u, totalWeight)
       THEN Head(eligible)
       ELSE Walk(Tail(eligible), cumulative + Head(eligible).entries, u, totalWeight)

\* a seedNum that is drawn anew in every call
RandomSeedNum(seed, rnd) == rnd

\* seedNum of weightedRandomSelect: parseInt(seed, 10) || <random>; rnd is
\* the value Math.floor(Math.random() * 2147483647) takes if it is evaluated
SeedNum(seed, rnd) ==
  IF ParseInt(seed) = NaN \/ ParseInt(seed) = 0 THEN rnd ELSE ParseInt(seed)

weightedRandomSelect(ps, seed, excludeEmails, rnd) ==
  LET IsEligible(p) == p.email \notin excludeEmails
      eligible == SelectSeq(ps, IsEligible)
      totalWeight == SumEntries(eligible)
  IN  IF eligible = <<>> THEN None
      ELSE IF totalWeight = 0 THEN None
      ELSE Some(Walk(eligible, 0,
                     mulberry32(SeedNum(seed, rnd) + Cardinality(excludeEmails)),
                     totalWeight))

----------------------------------------------------------------------------
(* The draw session: state of the Index page and of the presenter *)

VARIABLES
  participants,     \* Participant[]
  winners,          \* Winner[]: participant, drawNumber, isBonusPrize
  config,           \* RaffleConfig (the fields the draw reads)
  isLocked,
  auditLog,         \* None or Some(AuditLog)
  seed,             \* string of decimal digits, <<>> for ''
  drawId,           \* 0 for '', otherwise the number of the generated id
  datasetChecksum,  \* None for '', otherwise a checksum
  showPresenter,
  isDrawing,
  currentWinner,    \* None or Some(Participant)
  drawNumber,
  replayIndex,
  isReplayMode,
  isReplayModeRef,
  bulkWinners,      \* Winner[] held until the presenter is closed
  bulkRevealing,    \* PresenterMode's own state, reset when it is mounted
  timers,           \* completion callbacks the wheel animation has scheduled
  wheelSpins,       \* how many reveals the wheel animation has been asked for
  presentations,    \* how many times the presenter has been opened
  drawsStarted,     \* how many draw ids have been generated
  pendingLoad,      \* None or Some(the draw a loadDraw in flight resolves to)
  loads,            \* how many draws have been loaded from the history
  call,             \* None, or the arguments and result of a library call
  raffle_draws      \* the saved draws with their winner rows, by draw_id

session == <<participants, winners, config, isLocked, auditLog, seed, drawId,
             datasetChecksum, drawNumber>>
presenter == <<showPresenter, isDrawing, currentWinner, replayIndex,
               isReplayMode, isReplayModeRef, bulkWinners, bulkRevealing>>
counters == <<wheelSpins, presentations, drawsStarted>>
vars == <<session, presenter, timers, counters, pendingLoad, loads, call,
          raffle_draws>>

defaultConfig ==
  [numberOfWinners |-> 5, allowRepeats |-> FALSE, animationStyle |-> "slot",
   revealMode |-> "sequential", bonusRoundInterval |-> 0]

\* configurations the configuration panel is used to set up
Configs ==
  {[numberOfWinners |-> MaxWinners, allowRepeats |-> FALSE,
    animationStyle |-> "slot", revealMode |-> "sequential",
    bonusRoundInterval |-> BonusInterval],
   [numberOfWinners |-> MaxWinners, allowRepeats |-> FALSE,
    animationStyle |-> "wheel", revealMode |-> "sequential",
    bonusRoundInterval |-> BonusInterval],
   [numberOfWinners |-> MaxWinners, allowRepeats |-> FALSE,
    animationStyle |-> "slot", revealMode |-> "bulk",
    bonusRoundInterval |-> BonusInterval],
   [numberOfWinners |-> MaxWinners, allowRepeats |-> TRUE,
    animationStyle |-> "slot", revealMode |-> "sequential",
    bonusRoundInterval |-> 0],
   [numberOfWinners |-> MaxWinners, allowRepeats |-> TRUE,
    animationStyle |-> "slot", revealMode |-> "bulk",
    bonusRoundInterval |-> 0]}

\* draws the history panel lists: rows an earlier run of the program saved
SavedDraws ==
  {[participants |-> <<Ann, Bob, Cy>>,
    winners |-> <<[participant |-> Bob, drawNumber |-> 1,
                   isBonusPrize |-> FALSE]>>,
    config |-> [numberOfWinners |-> MaxWinners, allowRepeats |-> FALSE,
                animationStyle |-> "slot", revealMode |-> "sequential",
                bonusRoundInterval |-> BonusInterval],
    seed |-> NumberToString(6),
    drawId |-> 9,
    datasetChecksum |-> calculateChecksum(<<Ann, Bob, Cy>>),
    isLocked |-> TRUE]}

Emails(ws) == {ws[i].participant.email : i \in 1..Len(ws)}

AuditEntry(w) ==
  [drawNumber |-> w.drawNumber, name |-> w.participant.name,
   email |-> w.participant.email, entries |-> w.participant.entries]

createAuditLog(id, ps, ws, cfg, sd) ==
  [drawId |-> id, datasetChecksum |-> calculateChecksum(ps), seed |-> sd,
   config |-> cfg, totalParticipants |-> Len(ps),
   totalTickets |-> SumEntries(ps),
   winners |-> [i \in 1..Len(ws) |-> AuditEntry(ws[i])]]

isComplete ==
  IF isReplayMode THEN replayIndex >= Len(winners)
  ELSE Len(winners) >= config.numberOfWinners

\* a row of raffle_winners
WinnerRow(w) ==
  [draw_number |-> w.drawNumber, name |-> w.participant.name,
   email |-> w.participant.email, entries |-> w.participant.entries,
   is_bonus_prize |-> w.isBonusPrize]

\* what saveDraw keeps of a draw: of its raffle_draws row the seed, the
\* checksum and the participants, written once, and the lock flag, and its
\* raffle_winners rows
DrawRow(sd, ck, ps, locked, ws) ==
  [seed |-> sd, dataset_checksum |-> ck, participants |-> ps,
   is_locked |-> locked,
   winners |-> [i \in 1..Len(ws) |-> WinnerRow(ws[i])]]

\* the state of the page when it is mounted
Mounted ==
  /\ raffle_draws =
       [id \in {d.drawId : d \in SavedDraws} |->
          LET d == CHOOSE x \in SavedDraws : x.drawId = id
          IN  DrawRow(d.seed, d.datasetChecksum, d.participants, d.isLocked,
                      d.winners)]
  /\ participants = <<>>
  /\ winners = <<>>
  /\ config = defaultConfig
  /\ isLocked = FALSE
  /\ auditLog = None
  /\ seed = <<>>
  /\ drawId = 0
  /\ datasetChecksum = None
  /\ showPresenter = FALSE
  /\ isDrawing = FALSE
  /\ currentWinner = None
  /\ drawNumber = 0
  /\ replayIndex = 0
  /\ isReplayMode = FALSE
  /\ isReplayModeRef = FALSE
  /\ bulkWinners = <<>>
  /\ bulkRevealing = FALSE
  /\ timers = <<>>
  /\ wheelSpins = 0
  /\ presentations = 0
  /\ drawsStarted = 0
  /\ pendingLoad = None
  /\ loads = 0

Init == Mounted /\ call = None

----------------------------------------------------------------------------
(* Setup *)

\* handleImport, from the import step of the setup wizard; the wizard shows
\* its steps only while there are no winners
handleImport ==
  /\ UNCHANGED <<pendingLoad, loads, call, raffle_draws>>
  /\ ~showPresenter
  /\ winners = <<>>
  /\ \E newParticipants \in Pools :
       /\ participants' = newParticipants
       /\ datasetChecksum' = calculateChecksum(newParticipants)
  /\ winners' = <<>>
  /\ isLocked' = FALSE
  /\ auditLog' = None
  /\ drawNumber' = 0
  /\ drawId' = 0
  /\ UNCHANGED <<config, seed, presenter, timers, counters>>

\* setConfig, from the configuration step of the setup wizard
setConfig ==
  /\ UNCHANGED <<pendingLoad, loads, call, raffle_draws>>
  /\ ~showPresenter
  /\ winners = <<>>
  /\ participants # <<>>
  /\ \E c \in Configs : config' = c
  /\ config' # config
  /\ UNCHANGED <<participants, winners, isLocked, auditLog, seed, drawId,
                 datasetChecksum, drawNumber, presenter, timers, counters>>

\* the start buttons are disabled while the draw is locked
CanStart == ~showPresenter /\ ~isLocked

\* only an empty list is turned away
RefusedWhenEmpty == Len(participants) = 0

\* the two early returns of startPresenterMode
StartRefused ==
  \/ Len(participants) = 0
  \/ Len(participants) < config.numberOfWinners /\ ~config.allowRepeats

startPresenterMode ==
  /\ UNCHANGED <<pendingLoad, loads, call, raffle_draws>>
  /\ CanStart
  /\ IF StartRefused
     THEN UNCHANGED vars
     ELSE /\ presentations < MaxPresentations
          /\ presentations' = presentations + 1
          /\ IF drawId = 0
             THEN /\ drawsStarted < MaxDraws
                  /\ \E n \in SeedNumbers :
                       /\ seed' = NumberToString(n)
                       /\ auditLog' = Some(createAuditLog(drawsStarted + 1,
                                         participants, <<>>, config,
                                         NumberToString(n)))
                  /\ drawId' = drawsStarted + 1
                  /\ drawsStarted' = drawsStarted + 1
                  /\ datasetChecksum' = calculateChecksum(participants)
             ELSE UNCHANGED <<seed, drawId, datasetChecksum, auditLog,
                              drawsStarted>>
          /\ showPresenter' = TRUE
          /\ currentWinner' = None
          /\ isDrawing' = FALSE
          /\ isReplayMode' = FALSE
          /\ bulkRevealing' = FALSE
          /\ UNCHANGED <<participants, winners, config, isLocked, drawNumber,
                         replayIndex, isReplayModeRef, bulkWinners, timers,
                         wheelSpins>>

\* the replay buttons exist only next to a non-empty winners list
CanReplay == ~showPresenter /\ winners # <<>>

\* the body of startReplayMode
EnterReplay ==
  /\ UNCHANGED <<pendingLoad, loads, call, raffle_draws>>
  /\ IF Len(winners) = 0
     THEN UNCHANGED vars
     ELSE /\ presentations < MaxPresentations
          /\ presentations' = presentations + 1
          /\ isReplayModeRef' = TRUE
          /\ isReplayMode' = TRUE
          /\ replayIndex' = 0
          /\ drawNumber' = 0
          /\ currentWinner' = None
          /\ isDrawing' = FALSE
          /\ showPresenter' = TRUE
          /\ bulkRevealing' = FALSE
          /\ UNCHANGED <<participants, winners, config, isLocked, auditLog,
                         seed, drawId, datasetChecksum, bulkWinners, timers,
                         wheelSpins, drawsStarted>>

startReplayMode == CanReplay /\ EnterReplay

----------------------------------------------------------------------------
(* Sequential reveal *)

\* what the handleSpinComplete of one render has closed over
Closure(cw) ==
  [currentWinner |-> cw, drawNumber |-> drawNumber,
   bonusRoundInterval |-> config.bonusRoundInterval,
   isReplayMode |-> isReplayMode, replayIndex |-> replayIndex]

\* The wheel's effect runs when isSpinning turns true and schedules
\* onSpinComplete without ever cancelling it; the slot's effect cancels its
\* timeout when it is cleaned up, so it needs no entry here.
ScheduleSpin(cw) ==
  IF config.animationStyle = "wheel"
  THEN /\ Len(timers) < MaxTimers
       /\ wheelSpins < MaxWheelSpins
       /\ timers' = Append(timers, Closure(cw))
       /\ wheelSpins' = wheelSpins + 1
  ELSE UNCHANGED <<timers, wheelSpins>>

\* the draw button and the space key of the sequential presenter
CanDrawNext ==
  /\ showPresenter
  /\ config.revealMode = "sequential"
  /\ ~isComplete
  /\ ~isDrawing

\* the body of handleDrawNext
DrawNext ==
  /\ UNCHANGED <<pendingLoad, loads, call, raffle_draws>>
  /\ IF isReplayModeRef
     THEN IF replayIndex >= Len(winners)
          THEN /\ currentWinner' = None
               /\ UNCHANGED <<isDrawing, timers, wheelSpins>>
          ELSE /\ isDrawing' = TRUE
               /\ currentWinner' = Some(winners[replayIndex + 1].participant)
               /\ ScheduleSpin(Some(winners[replayIndex + 1].participant))
     ELSE IF Len(winners) >= config.numberOfWinners
          THEN /\ currentWinner' = None
               /\ UNCHANGED <<isDrawing, timers, wheelSpins>>
          ELSE \E rnd \in RandomNumbers :
                 LET excludeEmails ==
                       IF config.allowRepeats THEN {} ELSE Emails(winners)
                     winner == weightedRandomSelect(participants, seed,
                                                    excludeEmails, rnd)
                 IN  IF winner # None
                     THEN /\ isDrawing' = TRUE
                          /\ currentWinner' = winner
                          /\ ScheduleSpin(winner)
                     ELSE /\ isDrawing' = FALSE
                          /\ currentWinner' = None
                          /\ UNCHANGED <<timers, wheelSpins>>
  /\ UNCHANGED <<session, showPresenter, replayIndex, isReplayMode,
                 isReplayModeRef, bulkWinners, bulkRevealing, presentations,
                 drawsStarted>>

handleDrawNext == CanDrawNext /\ DrawNext

\* the body of handleSpinComplete, run with the values cl it closed over
SpinComplete(cl) ==
  /\ UNCHANGED <<pendingLoad, loads, call, raffle_draws>>
  /\ isDrawing' = FALSE
  /\ IF cl.currentWinner # None
     THEN IF cl.isReplayMode
          THEN /\ drawNumber' = cl.replayIndex + 1
               /\ replayIndex' = replayIndex + 1
               /\ currentWinner' = None
               /\ UNCHANGED <<winners, auditLog>>
          ELSE LET newDrawNumber == cl.drawNumber + 1
                   isBonusPrize ==
                     /\ cl.bonusRoundInterval > 0
                     /\ newDrawNumber % cl.bonusRoundInterval = 0
                   newWinner ==
                     [participant |-> cl.currentWinner[1],
                      drawNumber |-> newDrawNumber,
                      isBonusPrize |-> isBonusPrize]
               IN  /\ winners' = Append(winners, newWinner)
                   /\ drawNumber' = newDrawNumber
                   /\ auditLog' =
                        IF auditLog # None
                        THEN Some([auditLog[1] EXCEPT !.winners =
                                     Append(@, AuditEntry(newWinner))])
                        ELSE None
                   /\ UNCHANGED <<currentWinner, replayIndex>>
     ELSE UNCHANGED <<winners, auditLog, drawNumber, currentWinner,
                      replayIndex>>
  /\ UNCHANGED <<participants, config, isLocked, seed, drawId,
                 datasetChecksum, showPresenter, isReplayMode,
                 isReplayModeRef, bulkWinners, bulkRevealing, counters>>

\* the slot animation reaches its end while it is mounted and spinning; its
\* effect was last run with the current render's onSpinComplete
slotSpinComplete ==
  /\ showPresenter
  /\ config.revealMode = "sequential"
  /\ config.animationStyle = "slot"
  /\ ~isComplete
  /\ isDrawing
  /\ currentWinner # None
  /\ Len(participants) > 0
  /\ SpinComplete(Closure(currentWinner))
  /\ timers' = timers

\* a timeout scheduled by the wheel animation fires, whether or not the
\* presenter that scheduled it is still mounted
wheelSpinComplete ==
  \E i \in 1..Len(timers) :
    /\ SpinComplete(timers[i])
    /\ timers' = SubSeq(timers, 1, i - 1) \o SubSeq(timers, i + 1, Len(timers))

----------------------------------------------------------------------------
(* Bulk reveal *)

RECURSIVE BulkLoop(_, _, _, _)
\* the for loop of handleBulkDraw from iteration i on; rnds[i + 1] is the
\* value the selector's random fallback takes in iteration i
BulkLoop(i, numToDraw, drawnWinners, rnds) ==
  IF i >= numToDraw THEN drawnWinners
  ELSE LET excludeEmails ==
             IF config.allowRepeats THEN {} ELSE Emails(drawnWinners)
           winner == weightedRandomSelect(participants, seed, excludeEmails,
                                          rnds[i + 1])
       IN  IF winner = None THEN drawnWinners
           ELSE BulkLoop(i + 1, numToDraw,
                  Append(drawnWinners,
                    [participant |-> winner[1],
                     drawNumber |-> i + 1,
                     isBonusPrize |->
                       /\ config.bonusRoundInterval > 0
                       /\ (i + 1) % config.bonusRoundInterval = 0]),
                  rnds)

Min(a, b) == IF a <= b THEN a ELSE b

\* the draw-all button and the space key of the bulk presenter
CanBulkDraw ==
  /\ showPresenter
  /\ config.revealMode = "bulk"
  /\ ~bulkRevealing

handleBulkDraw ==
  /\ UNCHANGED <<pendingLoad, loads, call, raffle_draws>>
  /\ CanBulkDraw
  /\ bulkRevealing' = TRUE
  /\ IF Len(participants) = 0
     THEN bulkWinners' = bulkWinners
     ELSE LET numToDraw ==
                Min(config.numberOfWinners,
                    IF config.allowRepeats THEN config.numberOfWinners
                    ELSE Len(participants))
          IN  \E rnds \in [1..numToDraw -> RandomNumbers] :
                bulkWinners' = BulkLoop(0, numToDraw, <<>>, rnds)
  /\ UNCHANGED <<session, showPresenter, isDrawing, currentWinner,
                 replayIndex, isReplayMode, isReplayModeRef, timers, counters>>

exitPresenterMode ==
  /\ UNCHANGED <<pendingLoad, loads, call, raffle_draws>>
  /\ showPresenter
  /\ showPresenter' = FALSE
  /\ isReplayMode' = FALSE
  /\ isReplayModeRef' = FALSE
  /\ isDrawing' = FALSE
  /\ currentWinner' = None
  /\ bulkRevealing' = FALSE
  /\ IF Len(bulkWinners) > 0
     THEN /\ winners' = bulkWinners
          /\ drawNumber' = Len(bulkWinners)
          /\ auditLog' =
               IF drawId # 0
               THEN Some(createAuditLog(drawId, participants, bulkWinners,
                                        config, seed))
               ELSE auditLog
          /\ bulkWinners' = <<>>
     ELSE UNCHANGED <<winners, drawNumber, auditLog, bulkWinners>>
  /\ UNCHANGED <<participants, config, isLocked, seed, drawId,
                 datasetChecksum, replayIndex, timers, counters>>

----------------------------------------------------------------------------
(* Review of the winners *)

\* undo, restart and lock are offered only for an unlocked, non-empty list
CanEdit == ~showPresenter /\ ~isLocked /\ winners # <<>>

\* slice(0, -1)
DropLast(s) == SubSeq(s, 1, Len(s) - 1)

\* the three updates of handleUndo, as functions of the state they update
UndoWinners(ws) == DropLast(ws)
UndoDrawNumber(dn) == dn - 1
UndoAuditLog(al) ==
  IF al # None
  THEN Some([al[1] EXCEPT !.winners = DropLast(@)])
  ELSE None

\* handleUndo without its check of the winners' length
UndoLastUnchecked ==
  /\ UNCHANGED <<pendingLoad, loads, call, raffle_draws>>
  /\ IF isLocked
     THEN UNCHANGED vars
     ELSE /\ winners' = UndoWinners(winners)
          /\ drawNumber' = UndoDrawNumber(drawNumber)
          /\ auditLog' = UndoAuditLog(auditLog)
          /\ UNCHANGED <<participants, config, isLocked, seed, drawId,
                         datasetChecksum, presenter, timers, counters>>

\* the body of handleUndo
UndoLast ==
  /\ UNCHANGED <<pendingLoad, loads, call, raffle_draws>>
  /\ IF Len(winners) = 0 \/ isLocked
     THEN UNCHANGED vars
     ELSE /\ winners' = UndoWinners(winners)
          /\ drawNumber' = UndoDrawNumber(drawNumber)
          /\ auditLog' = UndoAuditLog(auditLog)
          /\ UNCHANGED <<participants, config, isLocked, seed, drawId,
                         datasetChecksum, presenter, timers, counters>>

handleUndo == CanEdit /\ UndoLast

\* a restart that leaves the draw counter where it is
RestartKeepingCounter ==
  /\ UNCHANGED <<pendingLoad, loads, call, raffle_draws>>
  /\ CanEdit
  /\ winners' = <<>>
  /\ currentWinner' = None
  /\ auditLog' = None
  /\ isLocked' = FALSE
  /\ UNCHANGED <<participants, config, seed, drawId, datasetChecksum,
                 drawNumber, showPresenter, isDrawing, replayIndex,
                 isReplayMode, isReplayModeRef, bulkWinners, bulkRevealing,
                 timers, counters>>

handleRestart ==
  /\ UNCHANGED <<pendingLoad, loads, call, raffle_draws>>
  /\ CanEdit
  /\ winners' = <<>>
  /\ drawNumber' = 0
  /\ currentWinner' = None
  /\ auditLog' = None
  /\ isLocked' = FALSE
  /\ UNCHANGED <<participants, config, seed, drawId, datasetChecksum,
                 showPresenter, isDrawing, replayIndex, isReplayMode,
                 isReplayModeRef, bulkWinners, bulkRevealing, timers,
                 counters>>

handleLock ==
  /\ UNCHANGED <<pendingLoad, loads, call, raffle_draws>>
  /\ CanEdit
  /\ isLocked' = TRUE
  /\ UNCHANGED <<participants, winners, config, auditLog, seed, drawId,
                 datasetChecksum, drawNumber, presenter, timers, counters>>

handleNewDrawSameSettings ==
  /\ UNCHANGED <<pendingLoad, loads, call, raffle_draws>>
  /\ ~showPresenter
  /\ drawsStarted < MaxDraws
  /\ \E n \in SeedNumbers : seed' = NumberToString(n)
  /\ drawId' = drawsStarted + 1
  /\ drawsStarted' = drawsStarted + 1
  /\ winners' = <<>>
  /\ drawNumber' = 0
  /\ currentWinner' = None
  /\ auditLog' = None
  /\ isLocked' = FALSE
  /\ UNCHANGED <<participants, config, datasetChecksum, showPresenter,
                 isDrawing, replayIndex, isReplayMode, isReplayModeRef,
                 bulkWinners, bulkRevealing, timers, wheelSpins,
                 presentations>>

handleNewDrawFresh ==
  /\ UNCHANGED <<pendingLoad, loads, call, raffle_draws>>
  /\ ~showPresenter
  /\ participants' = <<>>
  /\ winners' = <<>>
  /\ config' = defaultConfig
  /\ seed' = <<>>
  /\ drawId' = 0
  /\ datasetChecksum' = None
  /\ drawNumber' = 0
  /\ currentWinner' = None
  /\ auditLog' = None
  /\ isLocked' = FALSE
  /\ UNCHANGED <<showPresenter, isDrawing, replayIndex, isReplayMode,
                 isReplayModeRef, bulkWinners, bulkRevealing, timers,
                 counters>>

----------------------------------------------------------------------------
(* History *)

\* a click on a draw of the history panel: handleLoadDraw up to its await
handleLoadDraw ==
  /\ ~showPresenter
  /\ pendingLoad = None
  /\ loads < MaxLoads
  /\ \E data \in SavedDraws : pendingLoad' = Some(data)
  /\ loads' = loads + 1
  /\ UNCHANGED <<session, presenter, timers, counters, call, raffle_draws>>

\* loadDraw resolves: the rest of handleLoadDraw
loadDrawResolved ==
  /\ pendingLoad # None
  /\ LET data == pendingLoad[1]
     IN  /\ participants' = data.participants
         /\ winners' = data.winners
         /\ config' = data.config
         /\ seed' = data.seed
         /\ drawId' = data.drawId
         /\ datasetChecksum' = data.datasetChecksum
         /\ isLocked' = data.isLocked
         /\ drawNumber' = Len(data.winners)
         /\ auditLog' = Some(createAuditLog(data.drawId, data.participants,
                                            data.winners, data.config,
                                            data.seed))
  /\ pendingLoad' = None
  /\ UNCHANGED <<presenter, timers, counters, loads, call, raffle_draws>>

\* the lookup without its draw_id filter
SelectFirst(rows, id) ==
  IF DOMAIN rows # {} THEN Some(CHOOSE k \in DOMAIN rows : TRUE) ELSE None

\* select('id').eq('draw_id', drawId).maybeSingle()
SelectByDrawId(rows, id) == IF id \in DOMAIN rows THEN Some(id) ELSE None

\* insert(winnerRows) under UNIQUE(raffle_draw_id, draw_number): the
\* statement fails as a whole when it would leave two rows of the draw with
\* one draw_number
WinnersRejected(stored, rows) ==
  LET all == stored \o rows
  IN  \E i, j \in 1..Len(all) :
        i # j /\ all[i].draw_number = all[j].draw_number

InsertWinnerRows(stored, rows) ==
  IF WinnersRejected(stored, rows) THEN stored ELSE stored \o rows

\* The auto-save effect's timeout fires for an admin and saveDraw runs with
\* the state of the last render: an existing row gets its lock flag and
\* winners replaced, a new one is inserted.
\* the table after saveDraw has run with the state of the last render
SavedRows ==
  LET existing == SelectByDrawId(raffle_draws, drawId)
      row == DrawRow(seed, datasetChecksum, participants, isLocked,
                     winners)
      inserted == InsertWinnerRows(<<>>, row.winners)
  IN  IF existing # None
      THEN [raffle_draws EXCEPT ![existing[1]] =
              [@ EXCEPT !.is_locked = row.is_locked,
                        !.winners = inserted]]
      ELSE [id \in DOMAIN raffle_draws \cup {drawId} |->
              IF id = drawId THEN [row EXCEPT !.winners = inserted]
              ELSE raffle_draws[id]]

saveDraw ==
  /\ drawId # 0
  /\ Len(participants) # 0
  /\ raffle_draws' = SavedRows
  /\ UNCHANGED <<session, presenter, timers, counters, pendingLoad, loads,
                 call>>

\* participants.find(p => p.email === w.email) || { name, email, entries }
FindParticipant(ps, w) ==
  IF \E i \in 1..Len(ps) : ps[i].email = w.email
  THEN ps[CHOOSE i \in 1..Len(ps) :
            /\ ps[i].email = w.email
            /\ \A j \in 1..(i - 1) : ps[j].email # w.email]
  ELSE [name |-> w.name, email |-> w.email, entries |-> w.entries]

\* the orders in which order('draw_number', { ascending: true }) can
\* deliver rows: rows with the same draw_number come in any order
OrderedByDrawNumber(rows) ==
  {f \in [1..Len(rows) -> 1..Len(rows)] :
     /\ \A i, j \in 1..Len(rows) : i # j => f[i] # f[j]
     /\ \A i, j \in 1..Len(rows) :
          i < j => rows[f[i]].draw_number <= rows[f[j]].draw_number}

\* what loadDraw can return for the draw id of a table
loadDraw(rows, id) ==
  LET draw == rows[id]
  IN  {[participants |-> draw.participants,
        winners |->
          [i \in 1..Len(draw.winners) |->
             LET w == draw.winners[f[i]]
             IN  [participant |-> FindParticipant(draw.participants, w),
                  drawNumber |-> w.draw_number,
                  isBonusPrize |-> w.is_bonus_prize]],
        seed |-> draw.seed,
        drawId |-> id,
        datasetChecksum |-> draw.dataset_checksum,
        isLocked |-> draw.is_locked] :
       f \in OrderedByDrawNumber(draw.winners)}

----------------------------------------------------------------------------

Next ==
  \/ handleImport
  \/ setConfig
  \/ startPresenterMode
  \/ startReplayMode
  \/ handleDrawNext
  \/ slotSpinComplete
  \/ wheelSpinComplete
  \/ handleBulkDraw
  \/ exitPresenterMode
  \/ handleUndo
  \/ handleRestart
  \/ handleLock
  \/ handleNewDrawSameSettings
  \/ handleNewDrawFresh
  \/ handleLoadDraw
  \/ loadDrawResolved

Spec == Init /\ [][Next]_vars

----------------------------------------------------------------------------
(* The handlers called as functions, whatever the buttons offer *)

callUndo == ~showPresenter /\ UndoLast

callReplay == ~showPresenter /\ EnterReplay

callDrawNext ==
  /\ showPresenter
  /\ config.revealMode = "sequential"
  /\ ~isDrawing
  /\ DrawNext

HandlerNext ==
  \/ Next
  \/ callUndo
  \/ callReplay
  \/ callDrawNext

HandlerSpec == Init /\ [][HandlerNext]_vars

----------------------------------------------------------------------------
(* The session of an admin, whose changes are saved, under the slot *)
(* animation: a wheel's timeout is left pending                       *)

SaveNext ==
  \/ handleImport
  \/ setConfig
  \/ startPresenterMode
  \/ startReplayMode
  \/ handleDrawNext
  \/ slotSpinComplete
  \/ handleBulkDraw
  \/ exitPresenterMode
  \/ handleUndo
  \/ handleRestart
  \/ handleLock
  \/ handleNewDrawSameSettings
  \/ handleNewDrawFresh
  \/ handleLoadDraw
  \/ loadDrawResolved
  \/ saveDraw

SaveSpec == Init /\ [][SaveNext]_vars

----------------------------------------------------------------------------
(* Library calls: the arguments are drawn when the behaviour starts *)

People == {Al, Ann, Ann2, Bob, Cy}

ParticipantLists == UNION {[1..n -> People] : n \in 0..MaxPool}

page == <<session, presenter, timers, counters, pendingLoad, loads,
          raffle_draws>>

\* calculateChecksum is called on a list; the caller keeps the list as it
\* was given and the checksum of it
ChecksumInit ==
  /\ Mounted
  /\ \E ps \in ParticipantLists :
       call = Some([participants |-> ps, shuffled |-> ps,
                    checksum |-> calculateChecksum(ps)])

\* the caller exchanges two neighbours of the list
shuffle ==
  /\ \E i \in 1..(Len(call[1].shuffled) - 1) :
       LET ps == call[1].shuffled
       IN  call' = Some([call[1] EXCEPT
                           !.shuffled = [ps EXCEPT ![i] = ps[i + 1],
                                                   ![i + 1] = ps[i]]])
  /\ UNCHANGED page

ChecksumSpec == ChecksumInit /\ [][shuffle]_vars

Prizes == {"gift", "mug"}

PrizeLists == UNION {[1..n -> Prizes] : n \in 0..MaxPrizes}

\* PrizeConfig | null; samePrize and sequentialPrizes are optional fields
PrizeConfigs ==
  {None} \cup
  {Some([mode |-> m, samePrize |-> sp, sequentialPrizes |-> sq]) :
     m \in {"same", "sequential"},
     sp \in {None} \cup {Some(x) : x \in Prizes},
     sq \in {None} \cup {Some(l) : l \in PrizeLists}}

\* prizes[index]: undefined outside the array
ElementAt(arr, index) ==
  IF index \in 0..(Len(arr) - 1) THEN Some(arr[index + 1]) ELSE None

\* the index is not limited to the list
UnclampedIndex(winnerIndex, length) == winnerIndex

\* Math.min(winnerIndex, prizes.length - 1)
ClampedIndex(winnerIndex, length) == Min(winnerIndex, length - 1)

getPrizeForWinner(cfg, winnerIndex) ==
  IF cfg = None THEN None
  ELSE IF cfg[1].mode = "same" /\ cfg[1].samePrize # None
    THEN cfg[1].samePrize
  ELSE IF cfg[1].mode = "sequential" /\ cfg[1].sequentialPrizes # None
    THEN LET list == cfg[1].sequentialPrizes[1]
         IN  IF Len(list) = 0 THEN None
             ELSE ElementAt(list, ClampedIndex(winnerIndex, Len(list)))
  ELSE None

\* a caller is about to ask for the prize of a position
PrizeInit ==
  /\ Mounted
  /\ \E cfg \in PrizeConfigs, pos \in 0..MaxPosition :
       call = Some([config |-> cfg, winnerIndex |-> pos,
                    returned |-> FALSE, result |-> None])

callGetPrizeForWinner ==
  /\ ~call[1].returned
  /\ call' = Some([call[1] EXCEPT
                     !.returned = TRUE,
                     !.result = getPrizeForWinner(call[1].config,
                                                  call[1].winnerIndex)])
  /\ UNCHANGED page

PrizeSpec == PrizeInit /\ [][callGetPrizeForWinner]_vars

\* one ticket against nine, and a participant without tickets
PersonA == [name |-> "A", email |-> "a@x", entries |-> 1]
PersonB == [name |-> "B", email |-> "b@x", entries |-> 9]
Zed == [name |-> "Zed", email |-> "zed@x", entries |-> 0]

SelectPeople == {PersonA, PersonB, Zed, Ann, Ann2}

SelectLists == UNION {[1..n -> SelectPeople] : n \in 0..MaxPool}

\* seeds as generateSeed writes them; mulberry32(31803)() is 0.95000768
SelectSeeds == {NumberToString(n) : n \in SeedNumbers \cup {31803}}

ExcludeSets == SUBSET {"a@x", "b@x", "ann@x"}

\* a caller is about to select from a list
SelectInit ==
  /\ Mounted
  /\ \E ps \in SelectLists, sd \in SelectSeeds, ex \in ExcludeSets :
       call = Some([participants |-> ps, seed |-> sd, excludeEmails |-> ex,
                    returned |-> FALSE, random |-> 0, result |-> None])

callWeightedRandomSelect ==
  /\ ~call[1].returned
  /\ \E rnd \in RandomNumbers :
       call' = Some([call[1] EXCEPT
                       !.returned = TRUE,
                       !.random = rnd,
                       !.result = weightedRandomSelect(call[1].participants,
                                    call[1].seed, call[1].excludeEmails, rnd)])
  /\ UNCHANGED page

SelectSpec == SelectInit /\ [][callWeightedRandomSelect]_vars

----------------------------------------------------------------------------
(* Two saveDraw calls in flight: each await of saveDraw is one step *)

\* winners lists a session over <<Ann, Bob, Cy>> with seed "6" passes to
\* saveDraw under one draw id: none, one, two, two with one drawNumber
\* (a draw after a replay) and one numbered 0 (a draw after replay and undo)
RaceWinners ==
  {<<>>,
   <<[participant |-> Bob, drawNumber |-> 1, isBonusPrize |-> FALSE]>>,
   <<[participant |-> Bob, drawNumber |-> 1, isBonusPrize |-> FALSE],
     [participant |-> Ann, drawNumber |-> 2, isBonusPrize |-> TRUE]>>,
   <<[participant |-> Bob, drawNumber |-> 1, isBonusPrize |-> FALSE],
     [participant |-> Ann, drawNumber |-> 1, isBonusPrize |-> FALSE]>>,
   <<[participant |-> Bob, drawNumber |-> 0, isBonusPrize |-> TRUE]>>}

\* the arguments of one call, and where the call stands
SaveCalls ==
  [drawId : {1}, winners : RaceWinners, isLocked : BOOLEAN,
   pc : {"lookup"}, existing : {None}]

\* the row saveDraw inserts for a call's arguments
RaceRow(c) ==
  DrawRow(NumberToString(6), calculateChecksum(<<Ann, Bob, Cy>>),
          <<Ann, Bob, Cy>>, c.isLocked, c.winners)

\* two calls have been made for one draw id that has no row yet
RaceInit ==
  /\ Mounted
  /\ \E a, b \in SaveCalls : call = Some(<<a, b>>)

\* the table with the row of draw id replaced by r
WithRow(rows, id, r) ==
  [k \in DOMAIN rows \cup {id} |-> IF k = id THEN r ELSE rows[k]]

\* one call moves on to pc with the table left as rows
RaceStep(n, pc, existing, rows) ==
  /\ call' = Some([call[1] EXCEPT ![n] =
                     [@ EXCEPT !.pc = pc, !.existing = existing]])
  /\ raffle_draws' = rows
  /\ UNCHANGED <<session, presenter, timers, counters, pendingLoad, loads>>

\* select('id').eq('draw_id', drawId).maybeSingle()
saveLookup(n) ==
  LET c == call[1][n]
      existing == SelectByDrawId(raffle_draws, c.drawId)
  IN  /\ c.pc = "lookup"
      /\ RaceStep(n, IF existing # None THEN "update" ELSE "insert",
                  existing, raffle_draws)

\* update({config, is_locked, ...}).eq('id', drawUuid)
saveUpdate(n) ==
  LET c == call[1][n]
  IN  /\ c.pc = "update"
      /\ RaceStep(n, "delete", c.existing,
                  [raffle_draws EXCEPT ![c.existing[1]].is_locked =
                     c.isLocked])

\* from('raffle_winners').delete().eq('raffle_draw_id', drawUuid)
saveDelete(n) ==
  LET c == call[1][n]
  IN  /\ c.pc = "delete"
      /\ RaceStep(n, "winners", c.existing,
                  [raffle_draws EXCEPT ![c.existing[1]].winners = <<>>])

\* insert({draw_id, ...}) under draw_id TEXT NOT NULL UNIQUE: a second row
\* for the draw id is refused and saveDraw returns null
saveInsert(n) ==
  LET c == call[1][n]
  IN  /\ c.pc = "insert"
      /\ IF c.drawId \in DOMAIN raffle_draws
         THEN RaceStep(n, "failed", c.existing, raffle_draws)
         ELSE RaceStep(n, "winners", Some(c.drawId),
                       WithRow(raffle_draws, c.drawId,
                               [RaceRow(c) EXCEPT !.winners = <<>>]))

\* if (winners.length > 0) insert(winnerRows)
saveWinners(n) ==
  LET c == call[1][n]
      stored == raffle_draws[c.existing[1]].winners
      rows == RaceRow(c).winners
  IN  /\ c.pc = "winners"
      /\ IF Len(c.winners) > 0 /\ WinnersRejected(stored, rows)
         THEN RaceStep(n, "failed", c.existing, raffle_draws)
         ELSE RaceStep(n, "done", c.existing,
                       [raffle_draws EXCEPT ![c.existing[1]].winners =
                          InsertWinnerRows(stored, rows)])

RaceNext ==
  \E n \in {1, 2} :
    \/ saveLookup(n)
    \/ saveUpdate(n)
    \/ saveDelete(n)
    \/ saveInsert(n)
    \/ saveWinners(n)

RaceSpec == RaceInit /\ [][RaceNext]_vars

----------------------------------------------------------------------------
(* The auto-save effect of an admin's session and its debounce timeout *)

\* the effect's dependencies that the session holds
AutoSaveDeps ==
  <<drawId, participants, winners, config, seed, datasetChecksum, isLocked>>

\* the effect ran at mount, with no draw id: nothing was scheduled
AutoSaveInit ==
  /\ Mounted
  /\ call = Some([deps |-> AutoSaveDeps, timeout |-> FALSE])

\* the effect has run for the state of the last render
EffectSettled == call[1].deps = AutoSaveDeps

\* the effect's early return
NothingToSave == drawId = 0 \/ Len(participants) = 0

\* After a render that changed a dependency the cleanup of the previous
\* effect clears its timeout and the effect runs again: it returns early
\* or schedules saveDraw with the state of this render.
autoSaveEffect ==
  /\ ~EffectSettled
  /\ call' = Some([deps |-> AutoSaveDeps, timeout |-> ~NothingToSave])
  /\ UNCHANGED page

\* the timeout fires and saveDraw runs with the state it was scheduled with
saveTimeout ==
  /\ EffectSettled
  /\ call[1].timeout
  /\ raffle_draws' = SavedRows
  /\ call' = Some([call[1] EXCEPT !.timeout = FALSE])
  /\ UNCHANGED <<session, presenter, timers, counters, pendingLoad, loads>>

\* handlers run between renders, once the effects of the last one have run
AutoSaveNext ==
  \/ EffectSettled /\ handleImport
  \/ EffectSettled /\ setConfig
  \/ EffectSettled /\ startPresenterMode
  \/ EffectSettled /\ startReplayMode
  \/ EffectSettled /\ handleDrawNext
  \/ EffectSettled /\ slotSpinComplete
  \/ EffectSettled /\ handleBulkDraw
  \/ EffectSettled /\ exitPresenterMode
  \/ EffectSettled /\ handleUndo
  \/ EffectSettled /\ handleRestart
  \/ EffectSettled /\ handleLock
  \/ EffectSettled /\ handleNewDrawSameSettings
  \/ EffectSettled /\ handleNewDrawFresh
  \/ autoSaveEffect
  \/ saveTimeout

AutoSaveSpec == AutoSaveInit /\ [][AutoSaveNext]_vars

TypeOK ==
  /\ isLocked \in BOOLEAN
  /\ Len(timers) <= MaxTimers
  /\ drawsStarted <= MaxDraws

----------------------------------------------------------------------------
(* Properties of the draw session *)

DistinctEmails(ws) ==
  \A i, j \in 1..Len(ws) :
    i # j => ws[i].participant.email # ws[j].participant.email

\* C1: while repeats are not allowed, the emails of the recorded winners are
\* pairwise distinct in every reachable state.
NoDuplicateWinners ==
  ~config.allowRepeats => DistinctEmails(winners)

\* C2: on a locked session undo, restart and a draw request are refused:
\* they change neither the winners, the draw counter, the audit log nor the
\* lock, and a refused draw request selects nobody.  Entering replay still
\* opens the presenter on a locked session that has a winner.
LockRefusesEdits ==
  [][/\ (isLocked /\ (handleUndo \/ handleRestart))
          => (UNCHANGED <<winners, drawNumber, auditLog>> /\ isLocked')
     /\ (isLocked /\ ~isReplayModeRef /\ handleDrawNext)
          => (/\ UNCHANGED <<winners, drawNumber, auditLog>>
              /\ isLocked'
              /\ UNCHANGED <<isDrawing, currentWinner>>)
     /\ (isLocked /\ winners # <<>> /\ startReplayMode)
          => (showPresenter' /\ isReplayMode')]_vars

\* C3: once the lock is set, no step on the same draw (same drawId) changes
\* the winners or clears the lock.
LockedSessionFrozen ==
  [][(isLocked /\ drawId # 0 /\ drawId' = drawId)
       => (winners' = winners /\ isLocked')]_vars

\* C4: while the presenter is open for replay, no step on the draw changes
\* the winners or the audit log, or has the selector produce a list of
\* pending winners.
ReplayChangesNothing ==
  [][(isReplayMode /\ showPresenter /\ drawId' = drawId)
       => UNCHANGED <<winners, auditLog, bulkWinners>>]_vars

\* the emails of the first n winners
EarlierEmails(n) == Emails(SubSeq(winners, 1, n))

\* C5: in a session without repeats every recorded winner is the one the
\* selector returns for the session's pool and seed when the winners
\* recorded before it are excluded, whatever the run that repeats the
\* selection.
WinnersReproducible ==
  (drawId # 0 /\ ~config.allowRepeats) =>
    \A i \in 1..Len(winners) : \A rnd \in RandomNumbers :
      weightedRandomSelect(participants, seed, EarlierEmails(i - 1), rnd)
        = Some(winners[i].participant)

\* C6: two calls of the selector with the session's pool, seed and the same
\* exclusion set return the same participant.
SelectorDeterministic ==
  drawId # 0 =>
    \A excludeEmails \in {{}, Emails(winners)} :
      \A rnd1, rnd2 \in RandomNumbers :
        weightedRandomSelect(participants, seed, excludeEmails, rnd1)
          = weightedRandomSelect(participants, seed, excludeEmails, rnd2)

\* a completed reveal has recorded one more winner
RecordWinner ==
  /\ slotSpinComplete \/ wheelSpinComplete
  /\ Len(winners') = Len(winners) + 1

AuditWinners(al) == IF al = None THEN <<>> ELSE al[1].winners

\* C7: undoing right after a winner was recorded on an unlocked session
\* gives back the winners, the audit log's winner entries and the draw
\* counter of before the draw.
RecordUndoRoundTrip ==
  [][(~isLocked /\ RecordWinner) =>
       /\ UndoWinners(winners') = winners
       /\ AuditWinners(UndoAuditLog(auditLog')) = AuditWinners(auditLog)
       /\ UndoDrawNumber(drawNumber') = drawNumber]_vars

\* C8: every recorded winner carries its 1-based position in the list.
DrawNumberIsPosition ==
  \A i \in 1..Len(winners) : winners[i].drawNumber = i

\* C9: the winner at position p is flagged bonus exactly when the bonus
\* interval k is positive and p mod k = 0.
BonusCadence ==
  \A p \in 1..Len(winners) :
    winners[p].isBonusPrize
      <=> (/\ config.bonusRoundInterval > 0
           /\ p % config.bonusRoundInterval = 0)

PoolExhausted ==
  \A i \in 1..Len(participants) : participants[i].email \in Emails(winners)

\* C10: without repeats, a draw requested when every participant's email
\* has already won selects nobody and records nothing, and no step appends
\* a winner whose email has already won.
ExhaustionNeverDuplicates ==
  [][/\ (/\ handleDrawNext
         /\ ~isReplayModeRef
         /\ ~config.allowRepeats
         /\ Len(winners) < config.numberOfWinners
         /\ PoolExhausted)
          => (/\ ~isDrawing'
              /\ currentWinner' = None
              /\ UNCHANGED <<winners, auditLog, drawNumber>>)
     /\ (/\ ~config.allowRepeats
         /\ ~config'.allowRepeats
         /\ Len(winners') = Len(winners) + 1
         /\ DropLast(winners') = winners)
          => winners'[Len(winners')].participant.email \notin Emails(winners)
    ]_vars

\* the winner entries an audit log of the list ws holds
AuditEntries(ws) == [i \in 1..Len(ws) |-> AuditEntry(ws[i])]

\* C11: whenever the session has a recorded winner, the audit log exists
\* and its winner entries are those of the winners list, in the same order.
AuditLogFollowsWinners ==
  (drawId # 0 /\ winners # <<>>) =>
    /\ auditLog # None
    /\ auditLog[1].winners = AuditEntries(winners)

\* the fields of the session a refused operation must leave alone
sessionFields ==
  <<seed, datasetChecksum, winners, drawNumber, auditLog, isLocked,
    replayIndex>>

\* no participant is eligible for the next draw
NoneEligible ==
  \/ participants = <<>>
  \/ ~config.allowRepeats /\ PoolExhausted

InsufficientParticipants ==
  \/ Len(participants) = 0
  \/ Len(participants) < config.numberOfWinners /\ ~config.allowRepeats

\* C12: a refused operation leaves the session as it is: a draw requested
\* when the list is full or nobody is eligible (which also starts no
\* reveal), an undo or a replay requested on an empty winners list, and a
\* start with too few participants.
RefusalsAreNoOps ==
  [][/\ (/\ ~isReplayModeRef
         /\ Len(winners) >= config.numberOfWinners \/ NoneEligible
         /\ DrawNext)
          => (/\ UNCHANGED sessionFields
              /\ ~isDrawing'
              /\ currentWinner' = None)
     /\ (winners = <<>> /\ UndoLast) => UNCHANGED sessionFields
     /\ (winners = <<>> /\ EnterReplay)
          => (UNCHANGED sessionFields /\ UNCHANGED showPresenter)
     /\ (InsufficientParticipants /\ startPresenterMode)
          => (UNCHANGED sessionFields /\ UNCHANGED showPresenter)
    ]_vars

\* a draw was requested in a session whose every email has won
RefusedDrawReached ==
  /\ showPresenter
  /\ ~isReplayModeRef
  /\ config.revealMode = "sequential"
  /\ ~config.allowRepeats
  /\ winners # <<>>
  /\ Len(winners) < config.numberOfWinners
  /\ PoolExhausted
  /\ ~isDrawing
  /\ currentWinner = None

\* how often each checksum line occurs in a list
LineCounts(ps) ==
  [l \in {ChecksumLine(ps[i]) : i \in 1..Len(ps)} |->
     Cardinality({i \in 1..Len(ps) : ChecksumLine(ps[i]) = l})]

\* C13: the checksum of a list is the checksum of every permutation of it,
\* and two lists with the same lines, each as often, have the same checksum.
ChecksumOrderIndependent ==
  /\ calculateChecksum(call[1].shuffled) = call[1].checksum
  /\ \A ps \in ParticipantLists :
       LineCounts(ps) = LineCounts(call[1].shuffled)
         => calculateChecksum(ps) = calculateChecksum(call[1].shuffled)

\* a list of three different lines was brought into reverse order
ShuffledListReached ==
  /\ Len(call[1].participants) = MaxPool
  /\ Cardinality({call[1].participants[i] : i \in 1..MaxPool}) = MaxPool
  /\ \A i \in 1..MaxPool :
       call[1].shuffled[i] = call[1].participants[MaxPool + 1 - i]

\* C14: for a position counted from 0, a "same" configuration with a prize
\* gives that prize at every position; a "sequential" configuration with a
\* non-empty list gives the prize at the position, and the last prize at any
\* position past the end; no configuration, or an empty sequential list,
\* gives none.
PrizeForPosition ==
  call[1].returned =>
    LET cfg == call[1].config
        pos == call[1].winnerIndex
        res == call[1].result
    IN  /\ cfg = None => res = None
        /\ cfg # None /\ cfg[1].mode = "same" /\ cfg[1].samePrize # None
             => res = cfg[1].samePrize
        /\ cfg # None /\ cfg[1].mode = "sequential"
             /\ cfg[1].sequentialPrizes # None
             => LET list == cfg[1].sequentialPrizes[1]
                IN  /\ list = <<>> => res = None
                    /\ pos < Len(list) => res = Some(list[pos + 1])
                    /\ list # <<>> /\ pos >= Len(list)
                         => res = Some(list[Len(list)])

\* a position past the end of a list of different prizes was asked for
PastTheEndReached ==
  /\ call[1].returned
  /\ call[1].config # None
  /\ call[1].config[1].mode = "sequential"
  /\ call[1].config[1].sequentialPrizes = Some(<<"gift", "mug">>)
  /\ call[1].winnerIndex = MaxPosition
  /\ call[1].result = Some("mug")

\* C15: the selector returns none exactly when no participant is left after
\* the exclusion or those left have no entries; otherwise it returns the
\* first of those left, in pool order, whose running sum of entries is at
\* least r * totalWeight, and never a participant with an excluded email.
SelectsFirstReaching ==
  call[1].returned =>
    LET ps == call[1].participants
        ex == call[1].excludeEmails
        res == call[1].result
        left == {i \in 1..Len(ps) : ps[i].email \notin ex}
        Running(i) == SumEntries(SubSeq(ps, 1, i)) -
                        SumEntries(SelectSeq(SubSeq(ps, 1, i),
                                             LAMBDA p : p.email \in ex))
        totalWeight == IF Len(ps) = 0 THEN 0 ELSE Running(Len(ps))
        u == mulberry32(SeedNum(call[1].seed, call[1].random) + Cardinality(ex))
        Reaches(i) == ReachesTarget(Running(i), u, totalWeight)
    IN  /\ res = None <=> (left = {} \/ totalWeight = 0)
        /\ res # None =>
             /\ res[1].email \notin ex
             /\ \E i \in left :
                  /\ res[1] = ps[i]
                  /\ Reaches(i)
                  /\ \A j \in left : j < i => ~Reaches(j)

\* from [A:1, B:9] with r = 0.95 the selector returned B, and from the same
\* list with a small r it would stop at A
NineOfTenReached ==
  /\ call[1].returned
  /\ call[1].participants = <<PersonA, PersonB>>
  /\ call[1].seed = NumberToString(31803)
  /\ call[1].excludeEmails = {}
  /\ call[1].result = Some(PersonB)
  /\ weightedRandomSelect(<<PersonA, PersonB>>, NumberToString(6), {"ann@x"}, 0)
       = Some(PersonA)

\* C16: a start with no participants, or with repeats off and fewer
\* participants than winners asked for, creates no seed, draw id, checksum or
\* audit log and does not open the presenter; any other start opens it, and
\* creates a seed, a draw id, the checksum of the participants and an audit
\* log without winners when there is no draw id yet, and keeps seed and draw
\* id when there is one.
StartSessionContract ==
  [][(~showPresenter /\ ~isLocked /\ startPresenterMode) =>
       IF InsufficientParticipants
       THEN UNCHANGED <<seed, drawId, datasetChecksum, auditLog, showPresenter>>
       ELSE /\ showPresenter'
            /\ IF drawId = 0
               THEN /\ seed' \in {NumberToString(n) : n \in SeedNumbers}
                    /\ drawId' # 0
                    /\ datasetChecksum' = calculateChecksum(participants)
                    /\ auditLog' # None
                    /\ auditLog'[1].drawId = drawId'
                    /\ auditLog'[1].seed = seed'
                    /\ auditLog'[1].winners = <<>>
               ELSE UNCHANGED <<seed, drawId>>
    ]_vars

\* the presenter was opened a second time on a session that has a winner,
\* while a start with the default five winners would be refused
SessionKeptReached ==
  /\ showPresenter
  /\ presentations = 2
  /\ drawId # 0
  /\ winners # <<>>
  /\ auditLog # None
  /\ Len(participants) < defaultConfig.numberOfWinners
  /\ ~defaultConfig.allowRepeats

\* the lists a bulk draw can produce from the session's pool, seed and
\* configuration
BulkLists ==
  LET numToDraw == Min(config.numberOfWinners, Len(participants))
  IN  {BulkLoop(0, numToDraw, <<>>, rnds) :
         rnds \in [1..numToDraw -> RandomNumbers]}

\* ws are the first winners of every bulk draw
BulkPrefix(ws) ==
  \A bulk \in BulkLists :
    /\ Len(ws) <= Len(bulk)
    /\ ws = SubSeq(bulk, 1, Len(ws))

\* C17: without repeats, recording winners one by one from an empty list
\* gives the winners, order, positions and bonus flags of a bulk draw from
\* the same pool, seed and configuration; and a bulk draw gives
\* min(numberOfWinners, pool size) winners unless every email has won
\* before that.
BulkMatchesSequential ==
  [][/\ (/\ ~config.allowRepeats
         /\ Len(winners') = Len(winners) + 1
         /\ RecordWinner
         /\ BulkPrefix(winners))
          => BulkPrefix(winners')
     /\ (/\ ~config.allowRepeats
         /\ participants # <<>>
         /\ showPresenter
         /\ config.revealMode = "bulk"
         /\ handleBulkDraw)
          => \/ Len(bulkWinners') = Min(config.numberOfWinners, Len(participants))
             \/ /\ Len(bulkWinners') < Min(config.numberOfWinners, Len(participants))
                /\ \A i \in 1..Len(participants) :
                     participants[i].email \in Emails(bulkWinners')
    ]_vars

Excluded(ws) == IF config.allowRepeats THEN {} ELSE Emails(ws)

NewDrawLeavesOldRecord ==
  [][/\ (~showPresenter /\ drawId' # drawId /\ handleNewDrawSameSettings)
          => /\ drawId' # 0
             /\ drawId' \notin DOMAIN raffle_draws
             /\ seed' \in {NumberToString(n) : n \in SeedNumbers}
             /\ winners' = <<>>
             /\ drawNumber' = 0
             /\ ~isLocked'
             /\ UNCHANGED <<participants, config>>
     /\ (~showPresenter /\ drawId' = drawId /\ handleNewDrawSameSettings)
          => FALSE
     /\ (raffle_draws' # raffle_draws /\ saveDraw)
          => \A id \in DOMAIN raffle_draws :
               id # drawId => raffle_draws'[id] = raffle_draws[id]
    ]_vars

\* the saved draw was loaded, a new draw with the same settings was started
\* from it and saved with a winner, and the saved draw's row is as it was
NewDrawSavedReached ==
  /\ loads = 1
  /\ pendingLoad = None
  /\ drawId = 1
  /\ presentations = 1
  /\ auditLog = None
  /\ winners # <<>>
  /\ DOMAIN raffle_draws = {1, 9}
  /\ raffle_draws[1].winners # <<>>
  /\ participants = <<Ann, Bob, Cy>>
  /\ \A d \in SavedDraws :
       raffle_draws[d.drawId] =
         DrawRow(d.seed, d.datasetChecksum, d.participants, d.isLocked,
                 d.winners)

\* the emails, positions and bonus flags of a winners list
WinnerKeys(ws) ==
  [i \in 1..Len(ws) |->
     [email |-> ws[i].participant.email, drawNumber |-> ws[i].drawNumber,
      isBonusPrize |-> ws[i].isBonusPrize]]

\* C21: whenever the session can be saved, what a load returns after that
\* save has the session's seed, checksum, lock flag and winners (order,
\* emails, positions and bonus flags), and the draw counter the load sets,
\* the number of winners it delivers, is the session's number of winners.
SaveLoadRoundTrip ==
  (drawId # 0 /\ participants # <<>>) =>
    \A data \in loadDraw(SavedRows, drawId) :
      /\ data.seed = seed
      /\ data.datasetChecksum = datasetChecksum
      /\ data.isLocked = isLocked
      /\ WinnerKeys(data.winners) = WinnerKeys(winners)
      /\ Len(data.winners) = Len(winners)

\* C22: the winners list never has more entries than the configuration
\* asks for, and a draw requested on a full list selects nobody and records
\* nothing.
NeverMoreThanAsked ==
  [][/\ Len(winners') <= config'.numberOfWinners
     /\ (/\ showPresenter
         /\ ~isReplayModeRef
         /\ Len(winners) >= config.numberOfWinners
         /\ DrawNext)
          => (/\ currentWinner' = None
              /\ ~isDrawing'
              /\ UNCHANGED <<winners, auditLog, drawNumber>>)
    ]_vars

\* C23: a bulk draw changes neither the winners list, the draw counter nor
\* the audit log; leaving the presenter with a pending list makes it the
\* winners list, sets the counter to its length, rebuilds the audit log from
\* it and empties it; and nothing but leaving the presenter takes a pending
\* list away.
BulkIsPendingUntilExit ==
  [][/\ (/\ showPresenter
         /\ ~bulkRevealing
         /\ bulkRevealing'
         /\ handleBulkDraw)
          => UNCHANGED <<winners, drawNumber, auditLog>>
     /\ (/\ showPresenter
         /\ ~showPresenter'
         /\ bulkWinners # <<>>
         /\ exitPresenterMode)
          => /\ winners' = bulkWinners
             /\ drawNumber' = Len(bulkWinners)
             /\ auditLog' = Some(createAuditLog(drawId, participants,
                                                bulkWinners, config, seed))
             /\ bulkWinners' = <<>>
     /\ (bulkWinners # <<>> /\ bulkWinners' # bulkWinners)
          => (showPresenter /\ ~showPresenter')
    ]_vars

\* C24: the replay presenter opens only on a non-empty winners list and with
\* the cursor at 0; a step that moves the cursor in replay mode moves it by
\* one, from an index inside the list whose winner is the one presented; in
\* replay mode the cursor never exceeds the length of the winners list; and
\* a next-step at the end of the list presents nothing.
ReplayCursorContract ==
  [][/\ (/\ ~showPresenter
         /\ showPresenter'
         /\ isReplayMode')
          => (winners # <<>> /\ replayIndex' = 0)
     /\ (/\ isReplayMode
         /\ isReplayMode'
         /\ replayIndex' # replayIndex)
          => /\ replayIndex < Len(winners)
             /\ replayIndex' = replayIndex + 1
             /\ currentWinner = Some(winners[replayIndex + 1].participant)
     /\ isReplayMode' => replayIndex' <= Len(winners')
     /\ (/\ isReplayModeRef
         /\ replayIndex = Len(winners)
         /\ handleDrawNext)
          => (currentWinner' = None /\ isDrawing' = isDrawing)
    ]_vars

\* C25: an audit log that exists carries the session's draw id, seed and
\* dataset checksum, and, once winners have been drawn, the configuration
\* they were drawn under.
AuditLogMatchesSession ==
  auditLog # None =>
    /\ auditLog[1].drawId = drawId
    /\ auditLog[1].seed = seed
    /\ auditLog[1].datasetChecksum = datasetChecksum
    /\ winners # <<>> => auditLog[1].config = config

\* C26: outside replay mode the draw counter is the length of the winners
\* list, and the counter is never negative.
CounterIsWinnerCount ==
  /\ drawNumber >= 0
  /\ ~isReplayMode => drawNumber = Len(winners)

OneParticipant(ws) ==
  \A i, j \in 1..Len(ws) : ws[i].participant = ws[j].participant

\* C27: in a session that allows repeats every winner, recorded or pending
\* in a bulk list, is the same participant.
RepeatsSelectOneParticipant ==
  config.allowRepeats =>
    (OneParticipant(winners) /\ OneParticipant(bulkWinners))

\* C28: a completed reveal records a winner only while the presenter is
\* open with a draw pending: leaving the presenter abandons the pending
\* draw, and a recorded winner ends it, so that one draw records at most
\* one winner.
AbandonedDrawNeverRecorded ==
  [][(~(showPresenter /\ isDrawing /\ currentWinner # None))
       => ~RecordWinner]_vars

RaceFinished ==
  \A n \in {1, 2} : call[1][n].pc \in {"done", "failed"}

\* C29: when two saveDraw calls for one draw id have both finished, the
\* table has the row of that draw id, and its winner rows are the rows of
\* the winners passed to one of the two calls.
OverlappingSavesKeepOneList ==
  RaceFinished =>
    LET id == call[1][1].drawId
    IN  /\ id \in DOMAIN raffle_draws
        /\ raffle_draws[id].winners \in
             {RaceRow(call[1][n]).winners : n \in {1, 2}}

\* C30: when the session moves away from a draw id with winners, the row
\* saved for that draw id carries the winners and the lock flag the draw was
\* left with: a change that has not been saved when the draw id is left is
\* never saved, since a save is only issued for the draw id of the session.
LeftDrawWasSaved ==
  [][(/\ drawId # 0
      /\ winners # <<>>
      /\ drawId' # drawId)
       => /\ drawId \in DOMAIN raffle_draws
          /\ raffle_draws[drawId].is_locked = isLocked
          /\ raffle_draws[drawId].winners
               = [i \in 1..Len(winners) |-> WinnerRow(winners[i])]
    ]_vars

====
